---- MODULE Spec2Model ----
(***************************************************************************)
(* Celestia data-availability client of risechain/nitro (das/celestia):    *)
(*   - the BlobPointer wire codec in its three variants,                   *)
(*   - the namespaced-Merkle-tree preimage engine (das/celestia/tree),     *)
(*   - the CelestiaDA orchestrator: Store, Read, Verify, WaitForHeight.    *)
(* Byte strings are sequences over 0..255, Go slices are modelled with     *)
(* their bounds checks, a run-time panic is the outcome "panic".           *)
(***************************************************************************)
EXTENDS Integers, Sequences, FiniteSets, TLC

VARIABLES
    \* wire codec: the variant in use, the pointer to encode, the position
    \* of the exchange, the buffer under decode, the two outcomes
    cVariant, cPtr, cPc, cBuf, cEnc, cDec,
    \* NMT engine: the share list, the outcome of ComputeNmtRoot, the
    \* record(digest, preimage) calls in order, the digest -> preimage
    \* store, the digest removed from it, the outcome of NmtContent
    nPc, nShares, nRoot, nRecords, nOracle, nDeleted, nContent,
    \* DA orchestrator: the position inside the running operation, its
    \* name and variant, the collaborator calls it made, what it returned,
    \* the caller's pointer now and at the call, the height waited for (the
    \* square width in Read), the last value Blob.Submit or a poll reported,
    \* the polls logged,
    \* the arguments handed to VerifyAttestation
    dPc, dOp, dVariant, dCalls, dRet, dPtr, dPtr0, dTarget, dRead, dPolls, dAttest,
    \* the locals of a running Store or Read
    dIn,
    \* the collaborators' state: the node's local head, the bridge's
    \* attestation nonce, whether the caller has cancelled ctx
    envHead, envNonce, ctxCancelled

codecVars == <<cVariant, cPtr, cPc, cBuf, cEnc, cDec>>
nmtVars == <<nPc, nShares, nRoot, nRecords, nOracle, nDeleted, nContent>>
daVars == <<dPc, dOp, dVariant, dCalls, dRet, dPtr, dPtr0, dTarget, dRead, dPolls,
           dAttest, dIn>>
envVars == <<envHead, envNonce, ctxCancelled>>
vars == <<codecVars, nmtVars, daVars, envVars>>

(***************************************************************************)
(* Bounds of the model                                                     *)
(***************************************************************************)
\* most side nodes a modelled pointer carries
MaxSideNodes == 2
\* most shares pushed into one tree
MaxShares == 4
\* bytes of one padded share, namespace included
ShareSize == 32
\* highest block height the network reaches
MaxHeight == 2
\* highest attestation nonce a pointer carries
MaxNonce == 1
\* reads of one polling loop that are logged
MaxPolls == 3
\* widest extended data square
MaxSquareWidth == 4
\* highest share start index and longest share run of a pointer read
MaxStart == 5
MaxRun == 4

(***************************************************************************)
(* Outcomes of a Go call: a value, a returned error, or a run-time panic   *)
(***************************************************************************)
Ok(v) == [st |-> "ok", val |-> v]
Err(e) == [st |-> "err", val |-> e]
Panic == [st |-> "panic", val |-> <<>>]
None == [st |-> "none", val |-> <<>>]

(***************************************************************************)
(* Go byte slices                                                          *)
(***************************************************************************)
Min(a, b) == IF a < b THEN a ELSE b
Max(a, b) == IF a < b THEN b ELSE a

\* make([]byte, n)
Zeros(n) == [i \in 1..n |-> 0]

\* s[lo:hi] of a slice whose capacity is its length (0-based, hi exclusive)
Slice(s, lo, hi) == SubSeq(s, lo + 1, hi)

\* copy(dst[lo:], src): overwrites min(len(dst)-lo, len(src)) bytes
CopyAt(dst, lo, src) ==
    [i \in 1..Len(dst) |->
        IF i > lo /\ i - lo <= Len(src) THEN src[i - lo] ELSE dst[i]]

\* copy(dst[lo:hi], src)
CopyRange(dst, lo, hi, src) == CopyAt(dst, lo, Slice(src, 0, Min(Len(src), hi - lo)))

RECURSIVE LEBytes(_, _)
\* the n low-order bytes of v, least significant first
LEBytes(v, n) == IF n = 0 THEN <<>> ELSE <<v % 256>> \o LEBytes(v \div 256, n - 1)

\* binary.LittleEndian.PutUint64 / binary.Write(buf, LittleEndian, uint64)
PutUint64(v) == LEBytes(v, 8)

RECURSIVE LEValue(_)
LEValue(b) == IF b = <<>> THEN 0 ELSE b[1] + 256 * LEValue(Tail(b))

\* binary.LittleEndian.Uint64 of exactly 8 bytes; the model keeps every
\* integer field below 2^31
Uint64(b) == LEValue(b)

(***************************************************************************)
(* BlobPointer, minimal variant: das/celestia/blob.go                      *)
(***************************************************************************)
MinimalFields == {"BlockHeight", "TxCommitment", "DataRoot"}

MarshalMinimal(b) ==
    LET blob == Zeros(8 + Len(b.TxCommitment))
        withHeight == CopyAt(blob, 0, PutUint64(b.BlockHeight))
    IN Ok(CopyAt(withHeight, 8, b.TxCommitment))

UnmarshalMinimal(ref) ==
    IF Len(ref) < 33
    THEN Panic
    ELSE Ok([BlockHeight |-> Uint64(Slice(ref, 0, 8)),
             TxCommitment |-> Slice(ref, 8, 33),
             DataRoot |-> Slice(ref, 33, Len(ref))])

(***************************************************************************)
(* BlobPointer, fixed-offset variant                                       *)
(***************************************************************************)
FullFields ==
    {"BlockHeight", "Start", "SharesLength", "Key", "NumLeaves",
     "TxCommitment", "DataRoot", "SideNodes"}

\* upper bounds of the slice expressions MarshalBinary evaluates on blob
FixedMarshalSlices(b) ==
    {8, 16, 24, 32, 40, 72, 104}
        \cup {104 + (i * 32) + 32 : i \in 0..(Len(b.SideNodes) - 1)}

RECURSIVE FixedPutSideNodes(_, _, _)
FixedPutSideNodes(blob, nodes, i) ==
    IF i >= Len(nodes) THEN blob
    ELSE FixedPutSideNodes(
            CopyRange(blob, 104 + (i * 32), 104 + (i * 32) + 32, nodes[i + 1]),
            nodes, i + 1)

MarshalFixed(b) ==
    LET n == (8 * 3) + Len(b.TxCommitment) + Len(b.DataRoot)
        b0 == Zeros(n)
        b1 == CopyAt(b0, 0, PutUint64(b.BlockHeight))
        b2 == CopyAt(b1, 8, PutUint64(b.Start))
        b3 == CopyAt(b2, 16, PutUint64(b.SharesLength))
        b4 == CopyAt(b3, 24, PutUint64(b.Key))
        b5 == CopyAt(b4, 32, PutUint64(b.NumLeaves))
        b6 == CopyRange(b5, 40, 72, b.TxCommitment)
        b7 == CopyRange(b6, 72, 104, b.DataRoot)
    IN IF \E hi \in FixedMarshalSlices(b) : hi > n
       THEN Panic
       ELSE Ok(FixedPutSideNodes(b7, b.SideNodes, 0))

UnmarshalFixed(ref) ==
    LET sideNodesLength == Len(ref) - 104
    IN IF Len(ref) < 104
       THEN Panic
       ELSE IF \E i \in 0..(sideNodesLength - 1) : 104 + (i * 32) + 32 > Len(ref)
       THEN Panic
       ELSE Ok([BlockHeight |-> Uint64(Slice(ref, 0, 8)),
                Start |-> Uint64(Slice(ref, 8, 16)),
                SharesLength |-> Uint64(Slice(ref, 16, 24)),
                Key |-> Uint64(Slice(ref, 24, 32)),
                NumLeaves |-> Uint64(Slice(ref, 32, 40)),
                TxCommitment |-> Slice(ref, 40, 72),
                DataRoot |-> Slice(ref, 72, 104),
                SideNodes |-> [i \in 1..sideNodesLength |->
                    Slice(ref, 104 + ((i - 1) * 32), 104 + ((i - 1) * 32) + 32)]])

(***************************************************************************)
(* BlobPointer, length-prefixed variant                                    *)
(***************************************************************************)
\* writeBytes: an 8-byte length, then the bytes
writeBytes(buf, data) == buf \o PutUint64(Len(data)) \o data

RECURSIVE WriteSideNodes(_, _)
WriteSideNodes(buf, nodes) ==
    IF nodes = <<>> THEN buf
    ELSE WriteSideNodes(writeBytes(buf, Head(nodes)), Tail(nodes))

MarshalPrefixed(b) ==
    LET fixed == PutUint64(b.BlockHeight) \o PutUint64(b.Start)
                    \o PutUint64(b.SharesLength) \o PutUint64(b.Key)
                    \o PutUint64(b.NumLeaves)
        withRoots == writeBytes(writeBytes(fixed, b.TxCommitment), b.DataRoot)
        withCount == withRoots \o PutUint64(Len(b.SideNodes))
    IN Ok(WriteSideNodes(withCount, b.SideNodes))

\* binary.Read of a uint64 from a bytes.Reader holding data, at offset pos:
\* the value and the new offset, or EOF / ErrUnexpectedEOF
ReadUint64(data, pos) ==
    IF pos >= Len(data) THEN Err("EOF")
    ELSE IF pos + 8 > Len(data) THEN Err("unexpected EOF")
    ELSE Ok([v |-> Uint64(Slice(data, pos, pos + 8)), pos |-> pos + 8])

\* readBytes: make([]byte, length) and ONE bytes.Reader.Read into it, which
\* fails only when nothing is left and otherwise copies what there is
readBytes(data, pos) ==
    LET l == ReadUint64(data, pos)
    IN IF l.st # "ok" THEN l
       ELSE LET length == l.val.v
                at == l.val.pos
                n == Min(length, Len(data) - at)
            IN IF at >= Len(data) THEN Err("EOF")
               ELSE Ok([v |-> CopyAt(Zeros(length), 0, Slice(data, at, at + n)),
                        pos |-> at + n])

RECURSIVE ReadSideNodes(_, _, _, _)
\* the loop over sideNodesLen: the nodes read so far, or the first error
ReadSideNodes(data, pos, left, acc) ==
    IF left = 0 THEN Ok(acc)
    ELSE LET r == readBytes(data, pos)
         IN IF r.st # "ok" THEN r
            ELSE ReadSideNodes(data, r.val.pos, left - 1, Append(acc, r.val.v))

UnmarshalPrefixed(data) ==
    LET h == ReadUint64(data, 0)
        s == ReadUint64(data, 8)
        l == ReadUint64(data, 16)
        k == ReadUint64(data, 24)
        n == ReadUint64(data, 32)
    IN IF h.st # "ok" THEN h
       ELSE IF s.st # "ok" THEN s
       ELSE IF l.st # "ok" THEN l
       ELSE IF k.st # "ok" THEN k
       ELSE IF n.st # "ok" THEN n
       ELSE LET c == readBytes(data, 40)
            IN IF c.st # "ok" THEN c
               ELSE LET r == readBytes(data, c.val.pos)
                    IN IF r.st # "ok" THEN r
                       ELSE LET cnt == ReadUint64(data, r.val.pos)
                            IN IF cnt.st # "ok" THEN cnt
                               ELSE LET sn == ReadSideNodes(data, cnt.val.pos,
                                                            cnt.val.v, <<>>)
                                    IN IF sn.st # "ok" THEN sn
                                       ELSE Ok([BlockHeight |-> h.val.v,
                                                Start |-> s.val.v,
                                                SharesLength |-> l.val.v,
                                                Key |-> k.val.v,
                                                NumLeaves |-> n.val.v,
                                                TxCommitment |-> c.val.v,
                                                DataRoot |-> r.val.v,
                                                SideNodes |-> sn.val])

(***************************************************************************)
(* The three variants behind one name                                      *)
(***************************************************************************)
Variants == {"minimal", "fixed", "prefixed"}

FieldsOf(v) == IF v = "minimal" THEN MinimalFields ELSE FullFields

MarshalBinary(v, b) ==
    CASE v = "minimal" -> MarshalMinimal(b)
      [] v = "fixed" -> MarshalFixed(b)
      [] v = "prefixed" -> MarshalPrefixed(b)

UnmarshalBinary(v, ref) ==
    CASE v = "minimal" -> UnmarshalMinimal(ref)
      [] v = "fixed" -> UnmarshalFixed(ref)
      [] v = "prefixed" -> UnmarshalPrefixed(ref)

(***************************************************************************)
(* Codec inputs: well-formed pointers and the buffers handed to decode     *)
(***************************************************************************)
\* a 32-byte value whose bytes all differ, so a shifted or shortened copy
\* of it is never equal to it
Bytes32(seed) == [i \in 1..32 |-> (seed + i) % 256]

SideNodeList(k) == [i \in 1..k |-> Bytes32(100 + (10 * i))]

Heights == {1, 66000}
\* <<Start, SharesLength, Key, NumLeaves>>
ProofShapes == {<<0, 1, 0, 1>>, <<5, 3, 3, 4>>}
CommitmentSeeds == {7, 60}

Pointers ==
    { [BlockHeight |-> h, Start |-> ps[1], SharesLength |-> ps[2],
       Key |-> ps[3], NumLeaves |-> ps[4],
       TxCommitment |-> Bytes32(c), DataRoot |-> Bytes32(c + 40),
       SideNodes |-> SideNodeList(k)] :
         h \in Heights, ps \in ProofShapes,
         c \in CommitmentSeeds, k \in 0..MaxSideNodes }

\* 32-byte commitment, 32-byte data root, every side node 32 bytes
WellFormed(b) ==
    /\ Len(b.TxCommitment) = 32
    /\ Len(b.DataRoot) = 32
    /\ \A i \in 1..Len(b.SideNodes) : Len(b.SideNodes[i]) = 32

RECURSIVE Concat(_)
Concat(ss) == IF ss = <<>> THEN <<>> ELSE Head(ss) \o Concat(Tail(ss))

\* the bytes a peer sends for pointer b in the layout each variant's
\* UnmarshalBinary reads
WireImage(v, b) ==
    CASE v = "minimal" ->
            PutUint64(b.BlockHeight) \o b.TxCommitment \o b.DataRoot
      [] v = "fixed" ->
            PutUint64(b.BlockHeight) \o PutUint64(b.Start)
                \o PutUint64(b.SharesLength) \o PutUint64(b.Key)
                \o PutUint64(b.NumLeaves) \o b.TxCommitment \o b.DataRoot
                \o Concat(b.SideNodes)
      [] v = "prefixed" -> MarshalPrefixed(b).val

(***************************************************************************)
(* Codec operations                                                        *)
(***************************************************************************)
CodecIdle ==
    /\ cVariant = "minimal"
    /\ cPtr = <<>>
    /\ cPc = "off"
    /\ cBuf = <<>>
    /\ cEnc = None
    /\ cDec = None

CodecStart ==
    /\ cVariant \in Variants
    /\ cPtr \in Pointers
    /\ cPc = "start"
    /\ cBuf = <<>>
    /\ cEnc = None
    /\ cDec = None

\* p.MarshalBinary()
CodecMarshal ==
    /\ cPc = "start"
    /\ cEnc' = MarshalBinary(cVariant, cPtr)
    /\ cBuf' = IF cEnc'.st = "ok" THEN cEnc'.val ELSE <<>>
    /\ cPc' = "encoded"
    /\ UNCHANGED <<cVariant, cPtr, cDec, nmtVars, daVars, envVars>>

\* bytes arrive from outside the process: the first n bytes of an image
CodecReceive(n) ==
    /\ cPc = "start"
    /\ cBuf' = Slice(WireImage(cVariant, cPtr), 0, n)
    /\ cPc' = "received"
    /\ UNCHANGED <<cVariant, cPtr, cEnc, cDec, nmtVars, daVars, envVars>>

\* q.UnmarshalBinary(buf)
CodecUnmarshal ==
    /\ \/ cPc = "encoded" /\ cEnc.st = "ok"
       \/ cPc = "received"
    /\ cDec' = UnmarshalBinary(cVariant, cBuf)
    /\ cPc' = IF cPc = "encoded" THEN "roundtrip" ELSE "decoded"
    /\ UNCHANGED <<cVariant, cPtr, cBuf, cEnc, nmtVars, daVars, envVars>>

\* whether the byte fields UnmarshalBinary sets are slices of its argument
\* (b.TxCommitment = ref[8:33]) or slices of their own (make in readBytes)
Aliased(v) == v \in {"minimal", "fixed"}

\* the decoded pointer as seen once the argument's storage holds buf: a
\* field that is a slice of the argument shows the bytes now at its offsets
Rebind(v, dec, buf) ==
    IF ~Aliased(v) THEN dec
    ELSE IF v = "minimal"
    THEN [dec EXCEPT !.TxCommitment = Slice(buf, 8, 33),
                     !.DataRoot = Slice(buf, 33, Len(buf))]
    ELSE [dec EXCEPT !.TxCommitment = Slice(buf, 40, 72),
                     !.DataRoot = Slice(buf, 72, 104),
                     !.SideNodes = [k \in 1..Len(dec.SideNodes) |->
                         Slice(buf, 104 + ((k - 1) * 32), 104 + ((k - 1) * 32) + 32)]]

\* the bytes of a buffer its owner writes: the first of every 8-byte word
\* and the last one
OverwriteSpots(buf) == {i \in 1..Len(buf) : i % 8 = 1 \/ i = Len(buf)}

\* the owner of the buffer writes byte i of it after the decode returned
CodecOverwrite(i) ==
    /\ cPc \in {"roundtrip", "decoded"}
    /\ cDec.st = "ok"
    /\ i \in OverwriteSpots(cBuf)
    /\ cBuf' = [cBuf EXCEPT ![i] = (cBuf[i] + 1) % 256]
    /\ cDec' = Ok(Rebind(cVariant, cDec.val, cBuf'))
    /\ cPc' = "overwritten"
    /\ UNCHANGED <<cVariant, cPtr, cEnc, nmtVars, daVars, envVars>>

CodecNext ==
    \/ CodecMarshal
    \/ \E n \in 0..Len(WireImage(cVariant, cPtr)) : CodecReceive(n)
    \/ CodecUnmarshal
    \/ \E i \in OverwriteSpots(cBuf) : CodecOverwrite(i)

(***************************************************************************)
(* NMT engine: das/celestia/tree/nmt.go                                    *)
(***************************************************************************)
\* nmt.NamespaceIDSize(29)
NamespaceSize == 29
\* sha256.Size
HashSize == 32
\* the domain-separation bytes of the tree's leaf and inner-node preimages
LeafPrefix == 0
NodePrefix == 1

RECURSIVE WeightedSum(_, _, _, _)
\* sum of (w + i) * p[i] over the indices lo..hi of p
WeightedSum(p, lo, hi, w) ==
    IF lo > hi THEN 0
    ELSE IF lo = hi THEN (w + lo) * p[lo]
    ELSE LET mid == (lo + hi) \div 2
         IN WeightedSum(p, lo, mid, w) + WeightedSum(p, mid + 1, hi, w)

\* sha256.Sum256 of the empty string, e3b0c442...7852b855
Sha256OfEmpty ==
    <<227, 176, 196, 66, 152, 252, 28, 20, 154, 251, 244, 200, 153, 111, 185, 36,
      39, 174, 65, 228, 100, 155, 147, 76, 164, 149, 153, 27, 120, 82, 184, 85>>

\* sha256.Sum of p, idealised: 32 bytes fixed by p, distinct for all the
\* byte strings the model ever hashes, and with a first byte that is never
\* zero, so that no digest is another digest (or itself) moved one byte to
\* the right behind a zero byte; the digest of the empty string is the real one
Sha256(p) ==
    IF p = <<>> THEN Sha256OfEmpty
    ELSE
    LET a == WeightedSum(p, 1, Len(p), 1 - 1)
        b == WeightedSum(p, 1, Len(p), 3) % 65521
    IN <<1 + (Len(p) % 255), (Len(p) \div 255) % 256>> \o LEBytes(a, 4) \o LEBytes(b, 2)
         \o [k \in 1..(HashSize - 8) |-> (a + (k * b) + Len(p)) % 256]

\* common.BytesToHash: the last 32 bytes of b, right-aligned in 32 zero bytes
BytesToHash(b) ==
    LET kept == IF Len(b) > HashSize THEN Slice(b, Len(b) - HashSize, Len(b)) ELSE b
    IN Zeros(HashSize - Len(kept)) \o kept

RECURSIVE LexLess(_, _)
\* bytes.Compare(a, b) < 0 for two strings of one length
LexLess(a, b) ==
    IF a = <<>> THEN FALSE
    ELSE IF Head(a) # Head(b) THEN Head(a) < Head(b)
    ELSE LexLess(Tail(a), Tail(b))

NsMin(a, b) == IF LexLess(b, a) THEN b ELSE a
NsMax(a, b) == IF LexLess(a, b) THEN b ELSE a

\* the reserved namespace of parity shares, all bytes 0xFF
MaxNamespace == [i \in 1..NamespaceSize |-> 255]

\* the namespace range a node digest minNs || maxNs || hash carries
MinNs(node) == Slice(node, 0, NamespaceSize)
MaxNs(node) == Slice(node, NamespaceSize, 2 * NamespaceSize)

\* newNmtPreimageHasher: what the embedded sha256 has absorbed since its
\* last Reset, and the data slice
newNmtPreimageHasher == [absorbed |-> <<>>, data |-> <<>>]

\* Reset
Reset(h) == [absorbed |-> <<>>, data |-> <<>>]

\* a Write that feeds the hash and keeps no copy
WriteKeepsNothing(h, p) == [absorbed |-> h.absorbed \o p, data |-> h.data]

\* Write: h.data = append(h.data[:0], p...), then h.Hash.Write(p)
Write(h, p) == [absorbed |-> h.absorbed \o p, data |-> p]

\* Sum(b): record(BytesToHash(h.Hash.Sum(nil)), copy of h.data), then
\* h.Hash.Sum(b)
Sum(h, b) ==
    [out |-> b \o Sha256(h.absorbed),
     rec |-> <<BytesToHash(Sha256(h.absorbed)), h.data>>]

\* how the tree library (github.com/celestiaorg/nmt) drives the hasher for one
\* digest, as the specification of computeRoot has it: Reset, one Write of
\* the whole preimage p, Sum(prefix). The result is the digest appended to
\* prefix, and the one record(digest, data) call Sum makes, data being what
\* the last Write stored
HashAndRecord(prefix, p) ==
    LET h == Write(Reset(newNmtPreimageHasher), p)
        s == Sum(h, prefix)
    IN [digest |-> s.out, rec |-> s.rec]

\* the tree library's leaf hash: ns || ns || h(LeafPrefix || share)
HashLeaf(share) ==
    LET ns == Slice(share, 0, NamespaceSize)
    IN HashAndRecord(ns \o ns, <<LeafPrefix>> \o share)

\* the tree library's inner hash: min || max || h(NodePrefix || left || right), the
\* range ignoring the reserved namespace (nmt.IgnoreMaxNamespace(true))
HashNode(left, right) ==
    LET minNs == NsMin(MinNs(left), MinNs(right))
        maxNs == IF MinNs(left) = MaxNamespace THEN MaxNamespace
                 ELSE IF MinNs(right) = MaxNamespace THEN MaxNs(left)
                 ELSE NsMax(MaxNs(left), MaxNs(right))
    IN HashAndRecord(minNs \o maxNs, <<NodePrefix>> \o left \o right)

RECURSIVE SplitPoint(_, _)
\* the largest power of two below n, from k = 1 up
SplitPoint(n, k) == IF 2 * k < n THEN SplitPoint(n, 2 * k) ELSE k

RECURSIVE TreeRoot(_)
\* the tree library's root over the pushed leaves, every node hashed once,
\* children before their parent: the root digest and the record calls made
\* on the way, in order
TreeRoot(leaves) ==
    IF Len(leaves) = 1
    THEN LET h == HashLeaf(leaves[1]) IN [root |-> h.digest, recs |-> <<h.rec>>]
    ELSE LET k == SplitPoint(Len(leaves), 1)
             l == TreeRoot(SubSeq(leaves, 1, k))
             r == TreeRoot(SubSeq(leaves, k + 1, Len(leaves)))
             h == HashNode(l.root, r.root)
         IN [root |-> h.digest, recs |-> (l.recs \o r.recs) \o <<h.rec>>]

\* a nil entry of a share list
NilShare == <<-1>>

\* isComplete
isComplete(shares) == \A i \in 1..Len(shares) : shares[i] # NilShare

\* tree.Push accepts a leaf that holds a namespace not below the last one's
PushRejectsAt(shares, i) ==
    \/ Len(shares[i]) < NamespaceSize
    \/ i > 1 /\ LexLess(Slice(shares[i], 0, NamespaceSize),
                        Slice(shares[i - 1], 0, NamespaceSize))

PushRejects(shares) == \E i \in 1..Len(shares) : PushRejectsAt(shares, i)

\* the first leaf tree.Push rejects
FirstRejected(shares) ==
    CHOOSE i \in 1..Len(shares) :
        PushRejectsAt(shares, i) /\ \A j \in 1..(i - 1) : ~PushRejectsAt(shares, j)

\* the record calls of the leaves, one each, in the order pushed
LeafRecords(shares) == [i \in 1..Len(shares) |-> HashLeaf(shares[i]).rec]

\* a record call made for an inner node
IsInnerRecord(rec) == Head(rec[2]) = NodePrefix

\* ComputeNmtRoot(record, shares): the root or the error, and the record
\* calls made. Whether the tree library hashes a leaf when it is pushed
\* (hashOnPush) or only when the root is asked for is the library's choice:
\* with the first, the leaves pushed before a rejected one are recorded
\* although ComputeNmtRoot returns the error, and all leaf records come
\* before the inner nodes'
ComputeNmtRoot(shares, hashOnPush) ==
    IF ~isComplete(shares)
    THEN [out |-> Err("can not compute root of incomplete row"), recs |-> <<>>]
    ELSE IF PushRejects(shares)
    THEN [out |-> Err("invalid push"),
          recs |-> IF hashOnPush
                   THEN LeafRecords(SubSeq(shares, 1, FirstRejected(shares) - 1))
                   ELSE <<>>]
    ELSE LET t == TreeRoot(shares)
         IN [out |-> Ok(t.root),
             recs |-> IF hashOnPush
                      THEN LeafRecords(shares) \o SelectSeq(t.recs, IsInnerRecord)
                      ELSE t.recs]

\* getNmtChildrenHashes
getNmtChildrenHashes(hash) ==
    LET flagLen == NamespaceSize * 2
        sha256Len == HashSize
    IN [leftChild |-> Slice(hash, 1, flagLen + sha256Len),
        rightChild |-> Slice(hash, flagLen + sha256Len + 1, Len(hash))]

\* the oracle handed to NmtContent: a lookup in the digest -> preimage store
OracleGet(oracle, key) ==
    IF key \in DOMAIN oracle THEN Ok(oracle[key]) ELSE Err("not found")

\* a node is taken for a leaf when its two namespace bounds are equal
IsLeafHash(rootHash) ==
    Slice(rootHash, 0, NamespaceSize) = Slice(rootHash, NamespaceSize, NamespaceSize * 2)

RECURSIVE NmtContent(_, _)
NmtContent(oracle, rootHash) ==
    IF Len(rootHash) < NamespaceSize * 2 THEN Panic
    ELSE
    LET preimage == OracleGet(oracle,
                        BytesToHash(Slice(rootHash, NamespaceSize * 2, Len(rootHash))))
    IN IF preimage.st # "ok" THEN preimage
       ELSE IF IsLeafHash(rootHash)
       THEN (IF Len(preimage.val) < 1 THEN Panic
             ELSE Ok(<<Slice(preimage.val, 1, Len(preimage.val))>>))
       ELSE IF Len(preimage.val) < (NamespaceSize * 2) + HashSize + 1 THEN Panic
       ELSE LET kids == getNmtChildrenHashes(preimage.val)
                leftData == NmtContent(oracle, kids.leftChild)
                rightData == NmtContent(oracle, kids.rightChild)
            IN IF leftData.st # "ok" THEN leftData
               ELSE IF rightData.st # "ok" THEN rightData
               ELSE Ok(leftData.val \o rightData.val)

(***************************************************************************)
(* NMT inputs                                                              *)
(***************************************************************************)
\* namespace number id, or the reserved namespace for id 255
Namespace(id) == [i \in 1..NamespaceSize |-> IF i = NamespaceSize \/ id = 255 THEN id ELSE 0]

NamespaceIds == {1, 2, 255}

\* a share: namespace, one payload byte, zero padding up to ShareSize
PaddedShare(id, letter) ==
    Namespace(id) \o <<letter>> \o Zeros(ShareSize - (NamespaceSize + 1))

\* "a", "b", "c", ... by position, or "a" everywhere
Letter(mode, i) == IF mode = "distinct" THEN 96 + i ELSE 97

ShareLists ==
    UNION { { [i \in 1..n |-> PaddedShare(ids[i], Letter(mode, i))] :
                ids \in [1..n -> NamespaceIds], mode \in {"distinct", "same"} } :
            n \in 1..MaxShares }

\* the same lists with one entry missing
HoledLists ==
    { [s EXCEPT ![i] = NilShare] : s \in { t \in ShareLists : Len(t) = 2 }, i \in 1..2 }

RECURSIVE OracleFrom(_)
\* the store the record callbacks fill: a later record of a digest
\* overwrites an earlier one
OracleFrom(recs) ==
    IF recs = <<>> THEN <<>>
    ELSE LET last == recs[Len(recs)]
             rest == OracleFrom(SubSeq(recs, 1, Len(recs) - 1))
         IN [d \in (DOMAIN rest) \cup {last[1]} |->
                IF d = last[1] THEN last[2] ELSE rest[d]]

(***************************************************************************)
(* NMT operations                                                          *)
(***************************************************************************)
NmtIdle ==
    /\ nPc = "off"
    /\ nShares = <<>>
    /\ nRoot = None
    /\ nRecords = <<>>
    /\ nOracle = <<>>
    /\ nDeleted = <<>>
    /\ nContent = None

NmtStart ==
    /\ nPc = "start"
    /\ nShares \in ShareLists \cup HoledLists
    /\ nRoot = None
    /\ nRecords = <<>>
    /\ nOracle = <<>>
    /\ nDeleted = <<>>
    /\ nContent = None

\* byte strings a caller's oracle may hold besides those of a tree: nothing,
\* three bytes, a leaf's preimage, an inner node's preimage, and an inner
\* node's preimage whose two children are the hash of nothing
HandedPreimages ==
    LET a == PaddedShare(1, 97)
        b == PaddedShare(2, 98)
        e == <<>>
    IN {e, <<1, 2, 3>>, <<LeafPrefix>> \o a,
        (<<NodePrefix>> \o HashLeaf(a).digest) \o HashLeaf(b).digest,
        (<<NodePrefix>> \o ((Namespace(1) \o Namespace(1)) \o Sha256(e)))
            \o ((Namespace(2) \o Namespace(2)) \o Sha256(e))}

\* an oracle whose every entry maps a hash to the bytes that produced it
HonestOracle(ps) == [d \in {BytesToHash(Sha256(p)) : p \in ps} |->
                        CHOOSE p \in ps : BytesToHash(Sha256(p)) = d]

\* the roots handed over: a namespace range in front of an entry's hash, or
\* a namespace alone
HandedRoots ==
    { (Namespace(1) \o Namespace(hi)) \o Sha256(p) : hi \in {1, 2}, p \in HandedPreimages }
        \cup {Namespace(1)}

\* NmtContent is about to be called with a root and an oracle of the caller
NmtHanded ==
    /\ nPc = "handed"
    /\ nShares = <<>>
    /\ nRoot \in {Ok(r) : r \in HandedRoots}
    /\ nRecords = <<>>
    /\ nOracle \in {HonestOracle(ps) : ps \in SUBSET HandedPreimages}
    /\ nDeleted = <<>>
    /\ nContent = None

\* ComputeNmtRoot(record, shares), record writing into the store
NmtComputeRoot(hashOnPush) ==
    /\ nPc = "start"
    /\ LET c == ComputeNmtRoot(nShares, hashOnPush)
       IN /\ nRoot' = c.out
          /\ nRecords' = c.recs
          /\ nOracle' = OracleFrom(c.recs)
    /\ nPc' = "rooted"
    /\ UNCHANGED <<nShares, nDeleted, nContent, codecVars, daVars, envVars>>

\* the store loses the entry of digest d
NmtLoseEntry(d) ==
    /\ nPc = "rooted"
    /\ nRoot.st = "ok"
    /\ nDeleted = <<>>
    /\ d \in DOMAIN nOracle
    /\ nOracle' = [k \in (DOMAIN nOracle) \ {d} |-> nOracle[k]]
    /\ nDeleted' = d
    /\ UNCHANGED <<nPc, nShares, nRoot, nRecords, nContent, codecVars, daVars, envVars>>

\* NmtContent(oracle, root)
NmtReconstruct ==
    /\ nPc \in {"rooted", "handed"}
    /\ nRoot.st = "ok"
    /\ nContent' = NmtContent(nOracle, nRoot.val)
    /\ nPc' = IF nPc = "rooted" THEN "reconstructed" ELSE "walked"
    /\ UNCHANGED <<nShares, nRoot, nRecords, nOracle, nDeleted, codecVars, daVars, envVars>>

NmtNext ==
    \/ \E hashOnPush \in BOOLEAN : NmtComputeRoot(hashOnPush)
    \/ \E d \in DOMAIN nOracle : NmtLoseEntry(d)
    \/ NmtReconstruct

(***************************************************************************)
(* DA orchestrator: das/celestia/celestia.go and its earlier variant       *)
(***************************************************************************)
\* CelestiaMessageHeaderFlag
CelestiaMessageHeaderFlag == 12

RECURSIVE BitAnd(_, _)
\* a & b on unsigned integers
BitAnd(a, b) ==
    IF a = 0 \/ b = 0 THEN 0
    ELSE ((a % 2) * (b % 2)) + (2 * BitAnd(a \div 2, b \div 2))

\* the values of a byte
Bytes == 0..255

\* a test of the header byte by equality with the flag
IsHeaderByteEqual(header) == header = CelestiaMessageHeaderFlag

\* IsCelestiaMessageHeaderByte(header)
IsCelestiaMessageHeaderByte(header) == BitAnd(CelestiaMessageHeaderFlag, header) > 0

\* one collaborator call of an operation and how it ended
Call(name, st) == [call |-> name, st |-> st]

\* what an operation hands back: its values and its error ("nil" for none),
\* or a panic
Ret(val, err) == [st |-> "ret", val |-> val, err |-> err]
\* no value: nil, or an error alone
Nil == [nil |-> TRUE]
Panicked == [st |-> "panic", val |-> Nil, err |-> "panic"]
NoRet == [st |-> "none", val |-> Nil, err |-> "nil"]

\* the three CelestiaDA variants of the repository: "v1" returns the
\* serialized minimal pointer, "v2" fetches every proof at store time and
\* returns the serialized full pointer, "v3" returns the pointer itself
DaVariants == {"v1", "v2", "v3"}

\* a Store that takes height 0 for a chain height
HeightRejectedNever(height) == FALSE

\* if height == 0
HeightRejected(height) == height = 0

RECURSIVE SharesLengthOf(_)
\* sharesLength += proof.End() - proof.Start() over the row proofs
SharesLengthOf(proofs) ==
    IF proofs = <<>> THEN 0
    ELSE (Head(proofs)[2] - Head(proofs)[1]) + SharesLengthOf(Tail(proofs))

\* startIndex = proof.Start() of the first row proof
StartIndexOf(proofs) == IF proofs = <<>> THEN 0 ELSE proofs[1][1]

\* the message Store / Serialize return: the flag byte, then the pointer's
\* encoding; a panic of MarshalBinary is a panic of the caller
Serialized(codec, ptr, included) ==
    LET data == MarshalBinary(codec, ptr)
    IN IF data.st = "panic" THEN Panicked
       ELSE Ret([bytes |-> <<CelestiaMessageHeaderFlag>> \o data.val,
                 included |-> included], "nil")

\* Store's error return: no pointer, the inclusion flag read so far
StoreFails(included, err) == Ret([bytes |-> <<>>, included |-> included], err)

\* Store(ctx, message) of variant v, given what each collaborator answers:
\* the return value and the collaborator calls made, in order
StoreRun(v, codec, in) ==
    LET submit == <<Call("Blob.Submit", in.submit.st)>>
        proof == submit \o <<Call("Blob.GetProof", in.proof.st)>>
        incl == proof \o <<Call("Blob.Included", in.included.st)>>
        head == (IF v = "v1" THEN submit ELSE incl)
                    \o <<Call("Header.GetByHeight", in.header.st)>>
        drip == head \o <<Call("DataRootInclusionProof", in.drip.st)>>
        height == in.submit.val
        included == in.included.val
        minimal == [BlockHeight |-> height, TxCommitment |-> in.commitment,
                    DataRoot |-> in.header.val]
        full == [BlockHeight |-> height,
                 Start |-> StartIndexOf(in.proof.val),
                 SharesLength |-> SharesLengthOf(in.proof.val),
                 Key |-> in.drip.val.Index, NumLeaves |-> in.drip.val.Total,
                 TxCommitment |-> in.commitment, DataRoot |-> in.header.val,
                 SideNodes |-> in.drip.val.Aunts]
        bare == [BlockHeight |-> height,
                 Start |-> StartIndexOf(in.proof.val),
                 SharesLength |-> SharesLengthOf(in.proof.val),
                 Key |-> 0, NumLeaves |-> 0,
                 TxCommitment |-> CopyAt(Zeros(32), 0, in.commitment),
                 DataRoot |-> CopyAt(Zeros(32), 0, in.header.val),
                 SideNodes |-> <<>>, TupleRootNonce |-> 0]
    IN IF in.blobErr THEN [ret |-> StoreFails(FALSE, "NewBlobV0"), calls |-> <<>>]
       ELSE IF in.commitErr
       THEN [ret |-> StoreFails(FALSE, "CreateCommitment"), calls |-> <<>>]
       ELSE IF in.submit.st = "err"
       THEN [ret |-> StoreFails(FALSE, "Blob.Submit"), calls |-> submit]
       ELSE IF HeightRejected(height)
       THEN [ret |-> StoreFails(FALSE, "unexpected response code"), calls |-> submit]
       ELSE IF v = "v1"
       THEN (IF in.header.st = "err"
             THEN [ret |-> StoreFails(FALSE, "Header.GetByHeight"), calls |-> head]
             ELSE [ret |-> Serialized("minimal", minimal, FALSE), calls |-> head])
       ELSE IF in.proof.st = "err"
       THEN [ret |-> StoreFails(FALSE, "Blob.GetProof"), calls |-> proof]
       ELSE IF in.included.st = "err"
       THEN [ret |-> StoreFails(included, "Blob.Included"), calls |-> incl]
       ELSE IF in.header.st = "err"
       THEN [ret |-> StoreFails(included, "Header.GetByHeight"), calls |-> head]
       ELSE IF v = "v3"
       THEN [ret |-> Ret([ptr |-> bare, included |-> included], "nil"), calls |-> head]
       ELSE IF in.drip.st = "err"
       THEN [ret |-> StoreFails(included, "DataRootInclusionProof"), calls |-> drip]
       ELSE [ret |-> Serialized(codec, full, included), calls |-> drip]

\* a Read that divides by the fetched square's width in every variant
RowDivisorWidth(v, squareSize) == squareSize

\* the divisor Read turns a share index into a row index with: the square's
\* width in "v2", odsSquareSize = squareSize / 2 in "v3"
RowDivisor(v, squareSize) == IF v = "v3" THEN squareSize \div 2 ELSE squareSize

\* eds.Row(i) of a square of the given width: its shares, numbered row by row
EdsRow(width, i) == [j \in 1..width |-> (i * width) + (j - 1)]

\* Read(ctx, blobPointer) of variant v over a square of in.width
ReadRun(v, ptr, in) ==
    LET get == <<Call("Blob.Get", in.get.st)>>
        head == get \o <<Call("Header.GetByHeight", in.header.st)>>
        eds == head \o <<Call("Share.GetEDS", in.eds.st)>>
        squareSize == in.width
        divisor == RowDivisor(v, squareSize)
        startRow == ptr.Start \div divisor
        endRow == (ptr.Start + ptr.SharesLength) \div divisor
        rows == [k \in 1..((endRow - startRow) + 1) |-> EdsRow(squareSize, startRow + (k - 1))]
    IN IF in.get.st = "err"
       THEN [ret |-> Ret(Nil, "Blob.Get"), calls |-> get]
       ELSE IF v = "v1"
       THEN [ret |-> Ret([data |-> in.get.val], "nil"), calls |-> get]
       ELSE IF in.header.st = "err"
       THEN [ret |-> Ret(Nil, "Header.GetByHeight"), calls |-> head]
       ELSE IF in.eds.st = "err"
       THEN [ret |-> Ret(Nil, "Share.GetEDS"), calls |-> eds]
       ELSE IF divisor = 0 \/ endRow >= squareSize
       THEN [ret |-> Panicked, calls |-> eds]
       ELSE [ret |-> Ret([data |-> in.get.val,
                          square |-> [Rows |-> rows, SquareSize |-> squareSize,
                                      StartRow |-> startRow, EndRow |-> endRow]],
                         "nil"),
             calls |-> eds]

\* a wait that needs the head to pass the height
HeightReachedStrict(networkHead, height) == networkHead > height

\* networkHead.Height() >= height
HeightReached(networkHead, height) == networkHead >= height

\* a wait that an equal nonce ends
NonceReachedEqual(nonce, tupleRootNonce) == nonce >= tupleRootNonce

\* nonce > blobPointer.TupleRootNonce
NonceReached(nonce, tupleRootNonce) == nonce > tupleRootNonce

(***************************************************************************)
(* DA inputs: what the collaborators answer                                *)
(***************************************************************************)
\* a failed read, and no read yet: no height or nonce is reported
Failed == [st |-> "err", val |-> 0]
NoRead == [st |-> "none", val |-> 0]

\* Blob.Submit: an error or a height
SubmitOutcomes == {Failed} \cup {Ok(h) : h \in 0..MaxHeight}
\* Blob.GetProof: an error or the row proofs as <<start, end>> ranges
ProofOutcomes == {[st |-> "err", val |-> <<>>], Ok(<<<<2, 4>>>>), Ok(<<<<3, 4>>, <<0, 2>>>>)}
\* Blob.Included: an error or the flag
IncludedOutcomes == {[st |-> "err", val |-> FALSE], Ok(TRUE), Ok(FALSE)}
\* Header.GetByHeight: an error or the header's data hash
HeaderOutcomes == {[st |-> "err", val |-> <<>>], Ok(Bytes32(47))}
\* DataRootInclusionProof: an error or a merkle proof
NoProof == [Index |-> 0, Total |-> 0, Aunts |-> <<>>]
MerkleProofs == {[Index |-> k, Total |-> k + 1, Aunts |-> SideNodeList(k)] : k \in 0..MaxSideNodes}
DripOutcomes == {[st |-> "err", val |-> NoProof]} \cup {Ok(p) : p \in MerkleProofs}
\* NewBlobV0 / CreateCommitment, computed locally, may fail as well
LocalOutcomes == {<<FALSE, FALSE>>, <<TRUE, FALSE>>, <<FALSE, TRUE>>}

\* the variant of Store and the codec its BlobPointer type comes with
StoreVariants ==
    {<<"v1", "minimal">>, <<"v2", "fixed">>, <<"v2", "prefixed">>, <<"v3", "prefixed">>}

\* Blob.Get, Share.GetEDS
GetOutcomes == {[st |-> "err", val |-> <<>>], Ok(<<104, 105>>)}
EdsOutcomes == {[st |-> "err", val |-> <<>>], Ok(<<>>)}
\* an extended square is twice its original square wide
SquareWidths == {w \in 2..MaxSquareWidth : w % 2 = 0}

\* the collaborator calls Store and Read make, in order, when none fails
StoreCalls(v) ==
    IF v = "v1" THEN <<"Blob.Submit", "Header.GetByHeight">>
    ELSE IF v = "v3"
    THEN <<"Blob.Submit", "Blob.GetProof", "Blob.Included", "Header.GetByHeight">>
    ELSE <<"Blob.Submit", "Blob.GetProof", "Blob.Included", "Header.GetByHeight",
           "DataRootInclusionProof">>

ReadCalls(v) ==
    IF v = "v1" THEN <<"Blob.Get">>
    ELSE <<"Blob.Get", "Header.GetByHeight", "Share.GetEDS">>

\* the calls Store and Read make
CallNames ==
    {"Blob.Submit", "Blob.GetProof", "Blob.Included", "Header.GetByHeight",
     "DataRootInclusionProof", "Blob.Get", "Share.GetEDS"}

\* what a collaborator may answer to a call
AnswersOf(name) ==
    CASE name = "Blob.Submit" -> SubmitOutcomes
      [] name = "Blob.GetProof" -> ProofOutcomes
      [] name = "Blob.Included" -> IncludedOutcomes
      [] name = "Header.GetByHeight" -> HeaderOutcomes
      [] name = "DataRootInclusionProof" -> DripOutcomes
      [] name = "Blob.Get" -> GetOutcomes
      [] name = "Share.GetEDS" -> EdsOutcomes

\* the locals of a running Store or Read: the codec of its BlobPointer, the
\* results of NewBlobV0 / CreateCommitment, and the answer of every
\* collaborator call; a call not made yet stands as an empty answer
NoInputs ==
    [codec |-> "minimal", blobErr |-> FALSE, commitErr |-> FALSE,
     commitment |-> <<>>, submit |-> Ok(0), proof |-> Ok(<<>>),
     included |-> Ok(FALSE), header |-> Ok(<<>>), drip |-> Ok(NoProof),
     get |-> Ok(<<>>), eds |-> Ok(<<>>), width |-> 0]

\* the locals once the call of that name is answered
SetAnswer(in, name, ans) ==
    CASE name = "Blob.Submit" -> [in EXCEPT !.submit = ans]
      [] name = "Blob.GetProof" -> [in EXCEPT !.proof = ans]
      [] name = "Blob.Included" -> [in EXCEPT !.included = ans]
      [] name = "Header.GetByHeight" -> [in EXCEPT !.header = ans]
      [] name = "DataRootInclusionProof" -> [in EXCEPT !.drip = ans]
      [] name = "Blob.Get" -> [in EXCEPT !.get = ans]
      [] name = "Share.GetEDS" -> [in EXCEPT !.eds = ans]

\* the pointers a caller passes to Read and Verify
CallerPointers ==
    { [BlockHeight |-> 1, Start |-> s, SharesLength |-> n,
       Key |-> k, NumLeaves |-> k, TxCommitment |-> Bytes32(7),
       DataRoot |-> Bytes32(47), SideNodes |-> SideNodeList(k),
       TupleRootNonce |-> t] :
         s \in 0..MaxStart, n \in 0..MaxRun, k \in {0}, t \in {0} }

VerifyPointers ==
    { [BlockHeight |-> 1, Start |-> 2, SharesLength |-> 2,
       Key |-> k, NumLeaves |-> 2 * k, TxCommitment |-> Bytes32(7),
       DataRoot |-> Bytes32(47), SideNodes |-> SideNodeList(k),
       TupleRootNonce |-> t] :
         k \in 0..1, t \in 0..MaxNonce }

(***************************************************************************)
(* DA operations                                                           *)
(***************************************************************************)
NoPointer == [BlockHeight |-> 0, Start |-> 0, SharesLength |-> 0,
              Key |-> 0, NumLeaves |-> 0, TxCommitment |-> <<>>,
              DataRoot |-> <<>>, SideNodes |-> <<>>, TupleRootNonce |-> 0]
\* Verify's locals: the proof fetched, the pointer fields assigned, the
\* arguments of VerifyAttestation and its answer
NoAnswer == [st |-> "none", val |-> FALSE]
NoAttest == [made |-> FALSE, nonce |-> 0,
             tuple |-> [Height |-> 0, DataRoot |-> <<>>],
             proof |-> [SideNodes |-> <<>>, Key |-> 0, NumLeaves |-> 0],
             fetched |-> NoProof, written |-> {}, answer |-> NoAnswer]

\* the fields of *blobPointer Verify assigns
VerifyWrites == {"Key", "NumLeaves", "SideNodes"}

DaIdle ==
    /\ dPc = "idle"
    /\ dOp = "none"
    /\ dVariant = "v3"
    /\ dCalls = <<>>
    /\ dRet = NoRet
    /\ dPtr = NoPointer
    /\ dPtr0 = NoPointer
    /\ dTarget = 0
    /\ dRead = NoRead
    /\ dPolls = 0
    /\ dAttest = NoAttest
    /\ dIn = NoInputs
    /\ envHead = 0
    /\ envNonce = 0
    /\ ctxCancelled = FALSE

DaOff ==
    /\ dPc = "off"
    /\ dOp = "none"
    /\ dVariant = "v3"
    /\ dCalls = <<>>
    /\ dRet = NoRet
    /\ dPtr = NoPointer
    /\ dPtr0 = NoPointer
    /\ dTarget = 0
    /\ dRead = NoRead
    /\ dPolls = 0
    /\ dAttest = NoAttest
    /\ dIn = NoInputs
    /\ envHead = 0
    /\ envNonce = 0
    /\ ctxCancelled = FALSE

\* inside Store, Read or Verify, blocked in a collaborator call
Blocked == {"store_wait", "read_wait", "verify_wait"}

\* Store(ctx, message) up to its first collaborator call: NewBlobV0 and
\* CreateCommitment, then Blob.Submit is pending
Store(vc, lo) ==
    /\ dPc = "idle"
    /\ dOp' = "Store"
    /\ dVariant' = vc[1]
    /\ dIn' = [NoInputs EXCEPT !.codec = vc[2], !.blobErr = lo[1],
                               !.commitErr = lo[2], !.commitment = Bytes32(7)]
    /\ IF lo[1] \/ lo[2]
       THEN dRet' = StoreRun(vc[1], vc[2], dIn').ret /\ dPc' = "done"
       ELSE dRet' = dRet /\ dPc' = "store_wait"
    /\ UNCHANGED <<dCalls, dPtr, dPtr0, dTarget, dRead, dPolls, dAttest, envVars,
                   codecVars, nmtVars>>

\* the pending call of Store is answered: Store goes on to its next call,
\* or returns
StoreAnswer(name, ans) ==
    /\ dPc = "store_wait"
    /\ name = StoreCalls(dVariant)[Len(dCalls) + 1]
    /\ LET run == StoreRun(dVariant, dIn.codec, SetAnswer(dIn, name, ans))
       IN /\ dIn' = SetAnswer(dIn, name, ans)
          /\ dCalls' = Append(dCalls, Call(name, ans.st))
          /\ dRead' = IF name = "Blob.Submit" THEN ans ELSE dRead
          /\ IF run.calls = dCalls'
             THEN dRet' = run.ret /\ dPc' = "done"
             ELSE dRet' = dRet /\ dPc' = "store_wait"
    /\ UNCHANGED <<dOp, dVariant, dPtr, dPtr0, dTarget, dPolls, dAttest, envVars,
                   codecVars, nmtVars>>

\* Read(ctx, blobPointer) up to its first collaborator call: Blob.Get is
\* pending
Read(v, ptr) ==
    /\ dPc = "idle"
    /\ dOp' = "Read"
    /\ dVariant' = v
    /\ dPtr' = ptr
    /\ dPtr0' = ptr
    /\ dPc' = "read_wait"
    /\ UNCHANGED <<dCalls, dRet, dTarget, dRead, dPolls, dAttest, dIn, envVars,
                   codecVars, nmtVars>>

\* the pending call of Read is answered, Share.GetEDS with a square of the
\* given width: Read goes on to its next call, or returns
ReadAnswer(name, ans, width) ==
    /\ dPc = "read_wait"
    /\ name = ReadCalls(dVariant)[Len(dCalls) + 1]
    /\ LET got == name = "Share.GetEDS" /\ ans.st = "ok"
           in == [SetAnswer(dIn, name, ans) EXCEPT
                     !.width = IF got THEN width ELSE dIn.width]
           run == ReadRun(dVariant, dPtr, in)
       IN /\ dIn' = in
          /\ dTarget' = in.width
          /\ dCalls' = Append(dCalls, Call(name, ans.st))
          /\ IF run.calls = dCalls'
             THEN dRet' = run.ret /\ dPc' = "done"
             ELSE dRet' = dRet /\ dPc' = "read_wait"
    /\ UNCHANGED <<dOp, dVariant, dPtr, dPtr0, dRead, dPolls, dAttest, envVars,
                   codecVars, nmtVars>>

\* IsCelestiaMessageHeaderByte(header), called on its own
HeaderByte(header) ==
    /\ dPc = "idle"
    /\ dOp' = "IsCelestiaMessageHeaderByte"
    /\ dTarget' = header
    /\ dRet' = Ret([valid |-> IsCelestiaMessageHeaderByte(header)], "nil")
    /\ dPc' = "done"
    /\ UNCHANGED <<dIn, dVariant, dCalls, dPtr, dPtr0, dRead, dPolls, dAttest,
                   envVars, codecVars, nmtVars>>

\* Serialize(blobPointer), with either encoding of the full pointer
Serialize(codec, ptr) ==
    /\ dPc = "idle"
    /\ dOp' = "Serialize"
    /\ dPtr' = ptr
    /\ dPtr0' = ptr
    /\ dRet' = Serialized(codec, ptr, FALSE)
    /\ dPc' = "done"
    /\ UNCHANGED <<dIn, dVariant, dCalls, dTarget, dRead, dPolls, dAttest,
                   envVars, codecVars, nmtVars>>

\* the poll log: a read is logged until MaxPolls reads are
AppendPoll(calls, polls, c) == IF polls < MaxPolls THEN Append(calls, c) ELSE calls
CountPoll(polls) == IF polls < MaxPolls THEN polls + 1 ELSE polls

\* WaitForHeight(ctx, height), up to its loop
WaitForHeight(height) ==
    /\ dPc = "idle"
    /\ dOp' = "WaitForHeight"
    /\ dTarget' = height
    /\ dPc' = "wait_sleep"
    /\ UNCHANGED <<dIn, dVariant, dCalls, dRet, dPtr, dPtr0, dRead, dPolls, dAttest,
                   envVars, codecVars, nmtVars>>

\* time.Sleep(time.Second * 5) returns
WaitSleep ==
    /\ dPc = "wait_sleep"
    /\ dPc' = "wait_read"
    /\ UNCHANGED <<dIn, dOp, dVariant, dCalls, dRet, dPtr, dPtr0, dTarget, dRead,
                   dPolls, dAttest, envVars, codecVars, nmtVars>>

\* Header.LocalHead(ctx) and the test of the height it reports
WaitPoll(ok) ==
    /\ dPc = "wait_read"
    /\ dRead' = IF ok THEN Ok(envHead) ELSE Failed
    /\ dCalls' = AppendPoll(dCalls, dPolls, Call("Header.LocalHead", dRead'.st))
    /\ dPolls' = CountPoll(dPolls)
    /\ IF ~ok
       THEN dRet' = Ret(Nil, "Header.LocalHead") /\ dPc' = "done"
       ELSE IF HeightReached(envHead, dTarget)
       THEN dRet' = Ret(Nil, "nil") /\ dPc' = "done"
       ELSE dRet' = dRet /\ dPc' = "wait_sleep"
    /\ UNCHANGED <<dIn, dOp, dVariant, dPtr, dPtr0, dTarget, dAttest, envVars,
                   codecVars, nmtVars>>

\* sideNodes[i] = *(*[32]byte)(aunt)
ToSideNodes(aunts) == [i \in 1..Len(aunts) |-> Slice(aunts[i], 0, 32)]

\* a Verify that leaves the pointer as it was
PopulateNothing(ptr, proof) == ptr

\* blobPointer.Key, .NumLeaves, .SideNodes = the proof's index, total, aunts
PopulatePointer(ptr, proof) ==
    [ptr EXCEPT !.Key = proof.Index,
                !.NumLeaves = proof.Total,
                !.SideNodes = ToSideNodes(proof.Aunts)]

\* Verify(ctx, blobPointer, beginBlock, endBlock) up to its first collaborator
\* call: Trpc.DataRootInclusionProof is pending, the caller's pointer untouched
Verify(ptr) ==
    /\ dPc = "idle"
    /\ dOp' = "Verify"
    /\ dPtr0' = ptr
    /\ dPtr' = ptr
    /\ dPc' = "verify_wait"
    /\ UNCHANGED <<dIn, dVariant, dCalls, dRet, dTarget, dRead, dPolls, dAttest,
                   envVars, codecVars, nmtVars>>

\* DataRootInclusionProof returns: its error is Verify's, a short aunt
\* panics, else the pointer is written, the tuple and the proof are built
\* and the loop is entered
VerifyAnswer(drip) ==
    /\ dPc = "verify_wait"
    /\ dCalls' = Append(dCalls, Call("DataRootInclusionProof", drip.st))
    /\ IF drip.st = "err"
       THEN /\ dRet' = Ret([valid |-> FALSE], "DataRootInclusionProof")
            /\ dPtr' = dPtr
            /\ dAttest' = dAttest
            /\ dPc' = "done"
       ELSE IF \E i \in 1..Len(drip.val.Aunts) : Len(drip.val.Aunts[i]) < 32
       THEN /\ dRet' = Panicked
            /\ dPtr' = dPtr
            /\ dAttest' = dAttest
            /\ dPc' = "done"
       ELSE /\ dRet' = dRet
            /\ dPtr' = PopulatePointer(dPtr, drip.val)
            /\ dAttest' = [made |-> FALSE, nonce |-> 0,
                           tuple |-> [Height |-> dPtr.BlockHeight,
                                      DataRoot |-> dPtr.DataRoot],
                           proof |-> [SideNodes |-> dPtr'.SideNodes,
                                      Key |-> dPtr'.Key,
                                      NumLeaves |-> dPtr'.NumLeaves],
                           fetched |-> drip.val, written |-> VerifyWrites,
                           answer |-> NoAnswer]
            /\ dPc' = "verify_sleep"
    /\ UNCHANGED <<dIn, dOp, dVariant, dPtr0, dTarget, dRead, dPolls, envVars,
                   codecVars, nmtVars>>

\* time.Sleep(time.Second * 5) returns
VerifySleep ==
    /\ dPc = "verify_sleep"
    /\ dPc' = "verify_read"
    /\ UNCHANGED <<dIn, dOp, dVariant, dCalls, dRet, dPtr, dPtr0, dTarget, dRead,
                   dPolls, dAttest, envVars, codecVars, nmtVars>>

\* BlobstreamWrapper.StateEventNonce and the test of the nonce it reports
VerifyPoll(ok) ==
    /\ dPc = "verify_read"
    /\ dRead' = IF ok THEN Ok(envNonce) ELSE Failed
    /\ dCalls' = AppendPoll(dCalls, dPolls, Call("StateEventNonce", dRead'.st))
    /\ dPolls' = CountPoll(dPolls)
    /\ IF ~ok
       THEN dRet' = Ret([valid |-> FALSE], "StateEventNonce") /\ dPc' = "done"
       ELSE IF NonceReached(envNonce, dPtr.TupleRootNonce)
       THEN dRet' = dRet /\ dPc' = "verify_attest"
       ELSE dRet' = dRet /\ dPc' = "verify_sleep"
    /\ UNCHANGED <<dIn, dOp, dVariant, dPtr, dPtr0, dTarget, dAttest, envVars,
                   codecVars, nmtVars>>

\* what Verify returns for the outcome of VerifyAttestation
AttestResult(out) == IF out.st = "err" THEN Ret([valid |-> FALSE], "nil") ELSE Ret([valid |-> out.val], "nil")

AttestOutcomes == {[st |-> "err", val |-> FALSE], Ok(TRUE), Ok(FALSE)}

\* BlobstreamWrapper.VerifyAttestation and Verify's return
VerifyAttest(out) ==
    /\ dPc = "verify_attest"
    /\ dCalls' = Append(dCalls, Call("VerifyAttestation", out.st))
    /\ dAttest' = [dAttest EXCEPT !.made = TRUE, !.nonce = dPtr.TupleRootNonce,
                                  !.answer = out]
    /\ dRet' = AttestResult(out)
    /\ dPc' = "done"
    /\ UNCHANGED <<dIn, dOp, dVariant, dPtr, dPtr0, dTarget, dRead, dPolls, envVars,
                   codecVars, nmtVars>>

Polling == {"wait_sleep", "wait_read", "verify_sleep", "verify_read", "verify_attest"}

\* the network's head moves on while an operation waits
HeadAdvances ==
    /\ dPc \in Polling \cup Blocked
    /\ envHead < MaxHeight
    /\ envHead' = envHead + 1
    /\ UNCHANGED <<daVars, envNonce, ctxCancelled, codecVars, nmtVars>>

\* the bridge contract's attestation nonce moves on
NonceAdvances ==
    /\ dPc \in Polling \cup Blocked
    /\ envNonce <= MaxNonce
    /\ envNonce' = envNonce + 1
    /\ UNCHANGED <<daVars, envHead, ctxCancelled, codecVars, nmtVars>>

\* the caller cancels ctx
Cancel ==
    /\ dPc \in Polling \cup Blocked
    /\ ~ctxCancelled
    /\ ctxCancelled' = TRUE
    /\ UNCHANGED <<daVars, envHead, envNonce, codecVars, nmtVars>>

DaNext ==
    \/ \E vc \in StoreVariants, lo \in LocalOutcomes : Store(vc, lo)
    \/ \E name \in CallNames : \E ans \in AnswersOf(name) : StoreAnswer(name, ans)
    \/ \E v \in DaVariants, ptr \in CallerPointers : Read(v, ptr)
    \/ \E name \in CallNames, width \in SquareWidths :
           \E ans \in AnswersOf(name) : ReadAnswer(name, ans, width)
    \/ \E header \in Bytes : HeaderByte(header)
    \/ \E codec \in {"fixed", "prefixed"}, ptr \in VerifyPointers : Serialize(codec, ptr)
    \/ \E height \in 0..MaxHeight : WaitForHeight(height)
    \/ WaitSleep
    \/ \E ok \in BOOLEAN : WaitPoll(ok)
    \/ \E ptr \in VerifyPointers : Verify(ptr)
    \/ \E drip \in DripOutcomes : VerifyAnswer(drip)
    \/ VerifySleep
    \/ \E ok \in BOOLEAN : VerifyPoll(ok)
    \/ \E out \in AttestOutcomes : VerifyAttest(out)
    \/ HeadAdvances
    \/ NonceAdvances
    \/ Cancel

(***************************************************************************)
(* Specifications                                                          *)
(***************************************************************************)
\* the DA orchestrator: one call of Store, Read, Verify or WaitForHeight
Init == DaIdle /\ CodecIdle /\ NmtIdle

Next == DaNext

Spec == Init /\ [][Next]_vars

\* the goroutine inside WaitForHeight keeps running: its sleep returns and
\* its read is answered
FairSpec == Spec /\ WF_vars(WaitSleep) /\ WF_vars(\E ok \in BOOLEAN : WaitPoll(ok))

\* the wire codec alone
CodecInit == CodecStart /\ NmtIdle /\ DaOff

SpecCodec == CodecInit /\ [][CodecNext]_vars

\* the NMT engine alone
NmtInit == (NmtStart \/ NmtHanded) /\ CodecIdle /\ DaOff

SpecNmt == NmtInit /\ [][NmtNext]_vars

(***************************************************************************)
(* Codec claims                                                            *)
(***************************************************************************)
\* the decoded pointer equals b on every field variant v declares
SameFields(v, dec, b) == \A f \in FieldsOf(v) : dec[f] = b[f]

\* C1 (as claimed): in every variant, decoding the bytes MarshalBinary
\* returned for a well-formed pointer succeeds and gives back every field
\* the variant declares.
C1_RoundTrip ==
    (cPc = "roundtrip" /\ WellFormed(cPtr))
        => (cDec.st = "ok" /\ SameFields(cVariant, cDec.val, cPtr))

\* C9 (as claimed): MarshalBinary returns bytes, and neither an error nor
\* a panic, for every well-formed pointer in every variant.
C9_EncodeTotal ==
    (cPc = "encoded" /\ WellFormed(cPtr)) => cEnc.st = "ok"

\* the shortest buffer that holds every fixed-size item of the layout
MinFixedLen(v) ==
    CASE v = "minimal" -> 8 + 32 + 32
      [] v = "fixed" -> (8 * 5) + 32 + 32
      [] v = "prefixed" -> (8 * 5) + 8 + 8 + 8

\* the length prefix at offset pos is whole and declares more bytes than
\* follow it
Overruns(data, pos) ==
    /\ pos + 8 <= Len(data)
    /\ Uint64(Slice(data, pos, pos + 8)) > Len(data) - (pos + 8)

\* the offset after the length-prefixed field at pos
After(data, pos) == pos + 8 + Uint64(Slice(data, pos, pos + 8))

RECURSIVE NodesOverrun(_, _, _)
\* one of the next `left` side nodes is cut short or missing altogether
NodesOverrun(data, pos, left) ==
    IF left = 0 THEN FALSE
    ELSE IF pos + 8 > Len(data) \/ Overruns(data, pos) THEN TRUE
    ELSE NodesOverrun(data, After(data, pos), left - 1)

\* walking the length-prefixed layout meets a prefix that declares more
\* than the buffer still holds
PrefixedOverrun(data) ==
    LET c == 40
        r == After(data, c)
        n == After(data, r)
    IN \/ Overruns(data, c)
       \/ /\ c + 8 <= Len(data) /\ ~Overruns(data, c)
          /\ \/ Overruns(data, r)
             \/ /\ r + 8 <= Len(data) /\ ~Overruns(data, r)
                /\ n + 8 <= Len(data)
                /\ NodesOverrun(data, n + 8, Uint64(Slice(data, n, n + 8)))

Malformed(v, buf) ==
    \/ Len(buf) < MinFixedLen(v)
    \/ v = "prefixed" /\ PrefixedOverrun(buf)

\* C4 (as claimed): UnmarshalBinary answers a malformed buffer with an
\* error: it neither succeeds nor panics.
C4_DecodeRejectsMalformed ==
    (cPc = "decoded" /\ Malformed(cVariant, cBuf)) => cDec.st = "err"

\* C15: after UnmarshalBinary(buf) has returned, overwriting a byte of buf
\* leaves the decoded pointer (commitment, data root, side nodes) unchanged.
C15_DecodeCopies == [][cPc' = "overwritten" => cDec' = cDec]_vars

(***************************************************************************)
(* NMT claims                                                              *)
(***************************************************************************)
\* the digests of the inner nodes of the tree just built
InnerDigests == { nRecords[i][1] : i \in { j \in 1..Len(nRecords) : nRecords[j][2][1] = NodePrefix } }

\* C3 (as claimed): with the store exactly as the record callbacks filled
\* it, NmtContent on the root returns the share list, same length and order.
C3_NmtInverse ==
    (nPc = "reconstructed" /\ nDeleted = <<>>)
        => (nContent.st = "ok" /\ nContent.val = nShares)

\* C5 (as claimed): with the entry of any one inner node (root included)
\* removed from the store, NmtContent on the root of a tree over two or
\* more shares returns an error.
C5_MissingPreimage ==
    (nPc = "reconstructed" /\ Len(nShares) >= 2 /\ nDeleted \in InnerDigests)
        => nContent.st = "err"

\* ComputeNmtRoot has run
RootComputed == nPc \in {"rooted", "reconstructed"}

\* the record calls whose preimage is p
RecordsOf(p) == {i \in 1..Len(nRecords) : nRecords[i][2] = p}

\* C14: during ComputeNmtRoot over a complete share list record is called
\* once for every digest computed, each leaf's and each inner node's, and
\* every call record(d, p) passes the bytes p that were hashed to obtain d;
\* when a push is rejected the only digests computed, if any, are those of
\* the leaves pushed before, one record each.
C14_PreimageCapture ==
    RootComputed =>
        /\ \A i \in 1..Len(nRecords) :
               nRecords[i][1] = BytesToHash(Sha256(nRecords[i][2]))
        /\ nRoot.st = "err" =>
               /\ Len(nRecords) < Len(nShares)
               /\ \A i \in 1..Len(nRecords) : nRecords[i][2] = <<LeafPrefix>> \o nShares[i]
        /\ nRoot.st = "ok" =>
               /\ Len(nRecords) = (2 * Len(nShares)) - 1
               /\ \A k \in 1..Len(nShares) :
                      Cardinality(RecordsOf(<<LeafPrefix>> \o nShares[k]))
                          = Cardinality({j \in 1..Len(nShares) : nShares[j] = nShares[k]})
               /\ Cardinality({i \in 1..Len(nRecords) : Head(nRecords[i][2]) = NodePrefix})
                      = Len(nShares) - 1
               /\ nRecords[Len(nRecords)][1]
                      = Slice(nRoot.val, 2 * NamespaceSize, Len(nRoot.val))

\* C14 witness: a tree of three or more shares, two of them equal, was
\* hashed and its records taken
C14_Witness ==
    /\ nPc = "rooted"
    /\ nRoot.st = "ok"
    /\ Len(nShares) >= 3
    /\ nShares[1] = nShares[2]
    /\ Len(nRecords) = (2 * Len(nShares)) - 1

\* C16: for every root and every oracle whose entries map a hash to the
\* bytes that produced it (entries may be missing) NmtContent finishes by
\* returning a content list or an error.
C16_Terminates ==
    nPc \in {"walked", "reconstructed"} => nContent.st \in {"ok", "err"}

(***************************************************************************)
(* Claims about the DA orchestrator                                        *)
(***************************************************************************)
VerifyReturned == dOp = "Verify" /\ dPc = "done" /\ dRet.st = "ret"

\* C2: whenever a collaborator call made by Verify fails (the inclusion-proof
\* fetch, the attestation-nonce read or VerifyAttestation), Verify returns a
\* non-nil error; it never turns the failure into (false, nil).
C2_NoCoercion ==
    (VerifyReturned /\ \E i \in 1..Len(dCalls) : dCalls[i].st = "err")
        => dRet.err # "nil"

LoopReads == {"wait_read", "verify_read"}
LoopSleeps == {"wait_sleep", "verify_sleep"}

\* C6: once the caller's context is cancelled a polling loop (the height
\* wait of WaitForHeight, the nonce wait of Verify) stops within the
\* iteration it is in: it never goes from a read back to another sleep.
C6_CancelStops ==
    [][(ctxCancelled /\ dPc \in LoopReads) => dPc' \notin LoopSleeps]_vars

Waiting == dOp = "WaitForHeight" /\ dPc \in {"wait_sleep", "wait_read"}
WaitReturned == dOp = "WaitForHeight" /\ dPc = "done"
ReportedTarget == dRead.st = "ok" /\ dRead.val >= dTarget

\* WaitForHeight returns success only on a poll that reported a height at
\* or above the target, and it is still looping only while every poll so
\* far was answered with a height below the target
C7Safety ==
    /\ (WaitReturned /\ dRet.err = "nil") => ReportedTarget
    /\ (Waiting /\ dPolls > 0) => (dRead.st = "ok" /\ dRead.val < dTarget)
    /\ (WaitReturned /\ dRet.err # "nil") => dRead.st = "err"

\* C7: WaitForHeight(target) returns success at the first poll that reports
\* a local head >= target and never before such a poll; a failed read is
\* returned at once; and once the external head is >= target WaitForHeight
\* eventually returns (with success unless the read failed).
C7_HeightPolling ==
    /\ []C7Safety
    /\ (Waiting /\ envHead >= dTarget)
           ~> (WaitReturned /\ (dRet.err = "nil" \/ dRead.st = "err"))

\* C7 witness: WaitForHeight returned success after an earlier poll had
\* reported a height below the target
C7_Witness ==
    /\ WaitReturned
    /\ dRet.err = "nil"
    /\ dTarget > 0
    /\ dPolls >= 2
    /\ dRead = Ok(envHead)

\* Read of a variant that fetches the square, with every collaborator
\* answering
ReadFetched ==
    /\ dOp = "Read"
    /\ dPc = "done"
    /\ dVariant # "v1"
    /\ \A i \in 1..Len(dCalls) : dCalls[i].st = "ok"

\* rows lo..hi of the square of width w, in order
SquareRows(w, lo, hi) == [k \in 1..((hi - lo) + 1) |-> EdsRow(w, lo + (k - 1))]

\* the square data Read hands back for divisor d
RangeOver(d) ==
    LET lo == dPtr.Start \div d
        hi == (dPtr.Start + dPtr.SharesLength) \div d
    IN [Rows |-> SquareRows(dTarget, lo, hi), SquareSize |-> dTarget,
        StartRow |-> lo, EndRow |-> hi]

\* C8 as stated: the divisor is the fetched square's row width w itself in
\* both Read variants, and the rows returned are rows StartRow..EndRow.
C8_RowRangeByWidth ==
    (ReadFetched /\ dRet.st = "ret") => dRet.val.square = RangeOver(dTarget)

\* the divisor each Read variant uses
ReadDivisor == IF dVariant = "v3" THEN dTarget \div 2 ELSE dTarget

\* C8 amended: Read of celestia.go divides start and start + n by half the
\* fetched square's width (the original square's width), Read of part_002 by
\* the width itself; when EndRow is a row of the square the rows returned
\* are exactly rows StartRow..EndRow in order (the whole square only if the
\* range covers it), and when EndRow is not a row of the square Read panics.
C8_RowRange ==
    ReadFetched =>
        IF (dPtr.Start + dPtr.SharesLength) \div ReadDivisor >= dTarget
        THEN dRet = Panicked
        ELSE /\ dRet.st = "ret"
             /\ dRet.err = "nil"
             /\ dRet.val.square = RangeOver(ReadDivisor)
             /\ Len(dRet.val.square.Rows)
                    = (dRet.val.square.EndRow - dRet.val.square.StartRow) + 1

\* C8 witness: the celestia.go Read returned a row range that division by
\* the full width would not give, of fewer rows than the square has
C8_Witness ==
    /\ ReadFetched
    /\ dVariant = "v3"
    /\ dRet.st = "ret"
    /\ dRet.val.square.StartRow > dPtr.Start \div dTarget
    /\ Len(dRet.val.square.Rows) < dTarget

StoreReturned == dOp = "Store" /\ dPc = "done"

\* C10: when Blob.Submit returns height 0 without an error, Store returns
\* an error and no pointer, and makes no collaborator call after the submit.
C10_ZeroHeightRejected ==
    (dOp = "Store" /\ dRead = Ok(0))
        => /\ dPc = "done"
           /\ dRet = StoreFails(FALSE, "unexpected response code")
           /\ dCalls = <<Call("Blob.Submit", "ok")>>

\* C10 witness: a Store whose submit was answered with height 0 returned
C10_Witness ==
    /\ StoreReturned
    /\ dRead = Ok(0)
    /\ dRet.st = "ret"
    /\ dRet.err # "nil"

\* a message was produced: Serialize, or a Store that returns the message
MessageProduced ==
    /\ dPc = "done"
    /\ dRet.st = "ret"
    /\ dRet.err = "nil"
    /\ \/ dOp = "Serialize"
       \/ dOp = "Store" /\ dVariant # "v3"

\* the bit positions set in the flag 0x0c
FlagBits == {k \in 0..7 : (CelestiaMessageHeaderFlag \div (2^k)) % 2 = 1}

\* C11: for every byte b IsCelestiaMessageHeaderByte(b) is true exactly when
\* a tag bit of the flag 0x0c is set in b (flag & b # 0, a containment test
\* that other bits of b do not disturb, not equality with the flag), and the
\* first byte of every message Serialize / Store produce satisfies the
\* predicate.
C11_TagContainment ==
    /\ (dOp = "IsCelestiaMessageHeaderByte" /\ dPc = "done")
           => (dRet.val.valid <=> \E k \in FlagBits : (dTarget \div (2^k)) % 2 = 1)
    /\ MessageProduced => IsCelestiaMessageHeaderByte(dRet.val.bytes[1])

\* C11 witness: the predicate answered true for a byte that holds a tag bit
\* and is not the flag itself
C11_Witness ==
    /\ dOp = "IsCelestiaMessageHeaderByte"
    /\ dPc = "done"
    /\ dTarget # CelestiaMessageHeaderFlag
    /\ \E k \in FlagBits : (dTarget \div (2^k)) % 2 = 1
    /\ dRet.val.valid

\* the calls of the given name an operation has made
CallsOf(name) == {i \in 1..Len(dCalls) : dCalls[i].call = name}

\* C12: within one Verify VerifyAttestation is called at most once, and only
\* after a nonce read reported a value strictly greater than the pointer's
\* nonce (an equal nonce keeps the loop polling); the boolean it returns
\* without error is the boolean Verify returns.
C12_VerifyOrdering ==
    dOp = "Verify" =>
        /\ Cardinality(CallsOf("VerifyAttestation")) <= 1
        /\ (dPc = "verify_attest" \/ dAttest.made)
               => (dRead.st = "ok" /\ dRead.val > dPtr.TupleRootNonce)
        /\ (dPc \in {"verify_sleep", "verify_read"} /\ dPolls > 0)
               => (dRead.st = "ok" /\ dRead.val <= dPtr.TupleRootNonce)
        /\ (dPc = "done" /\ dAttest.answer.st = "ok")
               => dRet = Ret([valid |-> dAttest.answer.val], "nil")

\* C12 witness: Verify returned true from VerifyAttestation after an
\* earlier poll that had not passed the pointer's nonce
C12_Witness ==
    /\ VerifyReturned
    /\ dAttest.made
    /\ dAttest.answer = Ok(TRUE)
    /\ dPolls >= 2
    /\ dRet.val.valid

\* Verify got its inclusion proof
ProofFetched ==
    /\ dOp = "Verify"
    /\ dCalls # <<>>
    /\ dCalls[1].st = "ok"
    /\ dRet.st # "panic"

\* C13: once the inclusion proof is fetched Verify has written the proof's
\* key, numLeaves, side nodes (one 32-byte node per aunt, in order) and the
\* attestation nonce into the caller's pointer, and the tuple, the proof and
\* the nonce handed to VerifyAttestation equal those pointer fields.
C13_PointerPopulated ==
    ProofFetched =>
        /\ dPtr.Key = dAttest.fetched.Index
        /\ dPtr.NumLeaves = dAttest.fetched.Total
        /\ Len(dPtr.SideNodes) = Len(dAttest.fetched.Aunts)
        /\ \A i \in 1..Len(dPtr.SideNodes) :
               /\ Len(dPtr.SideNodes[i]) = 32
               /\ dPtr.SideNodes[i] = dAttest.fetched.Aunts[i]
        /\ {"Key", "NumLeaves", "SideNodes", "TupleRootNonce"} \subseteq dAttest.written
        /\ dAttest.made =>
               /\ dAttest.tuple = [Height |-> dPtr.BlockHeight, DataRoot |-> dPtr.DataRoot]
               /\ dAttest.proof = [SideNodes |-> dPtr.SideNodes, Key |-> dPtr.Key,
                                   NumLeaves |-> dPtr.NumLeaves]
               /\ dAttest.nonce = dPtr.TupleRootNonce

\* the collaborator calls that are polling reads
PollReads == {"Header.LocalHead", "StateEventNonce"}

\* C17: in Store, Verify and WaitForHeight a collaborator call other than a
\* polling read is made at most once, nothing is called after a failed
\* call, a failed call ends the operation with that call's error, and a
\* polling loop reads again only after a successful read.
C17_NoRetry ==
    dOp \in {"Store", "Verify", "WaitForHeight"} =>
        /\ \A i \in 1..Len(dCalls) :
               /\ dCalls[i].st = "err" => i = Len(dCalls)
               /\ dCalls[i].call \notin PollReads
                      => Cardinality(CallsOf(dCalls[i].call)) = 1
        /\ (dCalls # <<>> /\ dCalls[Len(dCalls)].st = "err")
               => (dPc = "done" /\ dRet.err = dCalls[Len(dCalls)].call)
        /\ (dPc \in (LoopSleeps \cup LoopReads) /\ dPolls > 0) => dRead.st = "ok"

\* Verify's pointer after the proof was fetched
Populated ==
    [dPtr0 EXCEPT !.Key = dAttest.fetched.Index,
                  !.NumLeaves = dAttest.fetched.Total,
                  !.SideNodes = dAttest.fetched.Aunts]

\* C18 as stated: whenever Verify returns an error the caller's pointer has
\* the key, numLeaves and side nodes it had before the call.
C18_PointerKeptOnError ==
    (VerifyReturned /\ dRet.err # "nil")
        => /\ dPtr.Key = dPtr0.Key
           /\ dPtr.NumLeaves = dPtr0.NumLeaves
           /\ dPtr.SideNodes = dPtr0.SideNodes

\* C18 amended: when the proof fetch fails the caller's pointer is as it
\* was before the call; when the nonce read fails during polling the
\* pointer already holds the fetched proof's key, numLeaves and side nodes
\* and is otherwise as it was.
C18_PointerOnError ==
    /\ (VerifyReturned /\ dRet.err = "DataRootInclusionProof") => dPtr = dPtr0
    /\ (VerifyReturned /\ dRet.err = "StateEventNonce") => dPtr = Populated

\* C18 witness: the nonce read failed and the pointer's key is no longer
\* the caller's
C18_Witness ==
    /\ VerifyReturned
    /\ dRet.err = "StateEventNonce"
    /\ dPtr.Key # dPtr0.Key
    /\ dPtr.Key = dAttest.fetched.Index

\* the pointer's shares [start, start + n), n >= 1, lie inside the square
\* the divisor indexes
SharesInside ==
    /\ dPtr.SharesLength >= 1
    /\ dPtr.Start + dPtr.SharesLength <= ReadDivisor * ReadDivisor

\* row r of the divisor's indexing holds a share of [start, start + n)
RowHoldsShare(r) ==
    /\ r * ReadDivisor < dPtr.Start + dPtr.SharesLength
    /\ (r + 1) * ReadDivisor > dPtr.Start

\* C19: for a pointer of n >= 1 shares inside the square every row Read asks
\* the square for is a row of the square, and every row returned holds at
\* least one share of [start, start + n): no trailing row is added when
\* start + n is a multiple of the divisor.
C19_MinimalRange ==
    (ReadFetched /\ SharesInside) =>
        /\ dRet.st = "ret"
        /\ \A r \in dRet.val.square.StartRow..dRet.val.square.EndRow :
               r < dTarget /\ RowHoldsShare(r)

====
